---- MODULE Spec2Model ----
(***************************************************************************)
(* Threefry splittable PRNG of python/tvm/topi/generic/algorithm.py.       *)
(*                                                                         *)
(* A generator state is a buffer of ten unsigned words                     *)
(*     words: 0 1 2 3 | 4 5  | 6 7     | 8 9                               *)
(*     usage: key     | path | counter | cursor                            *)
(* The source works on uint64; the model keeps the same layout and the     *)
(* same wrapping arithmetic on words of iwidth = WordBits bits, so that    *)
(* the reachable states can be enumerated.  Every constant of the source   *)
(* that is written relative to the word width (2**64 - 1, 1 << 63,         *)
(* 1 << 62, 0x8000000000000000) is written relative to WordBits here.      *)
(*                                                                         *)
(* The IRBuilder code is a list of buffer stores; the operators below      *)
(* apply the same stores, in the same order, to a record of buffers.       *)
(***************************************************************************)
EXTENDS Integers, Naturals, Sequences, FiniteSets, TLC

(* ------------------------------ bounds -------------------------------- *)

\* width of a word in bits (64 in the source)
WordBits == 3

\* operations applied from the seed state in specification Spec
MaxOps == 6

(* --------------------------- word arithmetic -------------------------- *)

iwidth == WordBits

Pow2(k) == 2 ^ k

Modulus == Pow2(iwidth)

\* tir.const(2 ** 64 - 1), tir.const(0xFFFFFFFFFFFFFFFF)
MaxWord == Modulus - 1

Word == 0 .. MaxWord

\* uint64 +
Add(x, y) == (x + y) % Modulus

RECURSIVE BitXor(_, _)
BitXor(x, y) ==
    IF x = 0 THEN y
    ELSE IF y = 0 THEN x
    ELSE ((x + y) % 2) + 2 * BitXor(x \div 2, y \div 2)

RECURSIVE BitOr(_, _)
BitOr(x, y) ==
    IF x = 0 THEN y
    ELSE IF y = 0 THEN x
    ELSE (IF x % 2 = 1 \/ y % 2 = 1 THEN 1 ELSE 0) + 2 * BitOr(x \div 2, y \div 2)

\* uint64 <<  and  >>
Shl(x, r) == (x * Pow2(r)) % Modulus
Shr(x, r) == x \div Pow2(r)

(* ------------------------------ buffers ------------------------------- *)

Buf(len, fill) == [i \in 0 .. (len - 1) |-> fill]

\* buf[idx] = val
Store(m, buf, idx, val) == [m EXCEPT ![buf] = [@ EXCEPT ![idx] = val]]

\* a list of stores <<idx, val>> to one buffer, in order
RECURSIVE StoreSeq(_, _, _)
StoreSeq(m, buf, ws) ==
    IF ws = <<>> THEN m
    ELSE StoreSeq(Store(m, buf, Head(ws)[1], Head(ws)[2]), buf, Tail(ws))

\* buf[idx]; a read past the allocated extent yields whatever lies there
Load(m, buf, idx, junk) ==
    IF idx \in DOMAIN m[buf] THEN m[buf][idx] ELSE junk[idx]

(* ------------------------------ _threefry ----------------------------- *)

nrounds == 20

nwords == 4

\* _ROTATIONS[4] and _PERMUTATIONS[4], rows and entries counted from 0
ROTATIONS ==
    << <<14, 16>>, <<52, 57>>, <<23, 40>>, <<5, 37>>,
       <<25, 33>>, <<46, 12>>, <<58, 22>>, <<32, 32>> >>

PERMUTATIONS == <<0, 3, 2, 1>>

\* _ROTATIONS[nwords][d % 8][j], taken modulo the word width of the model
Rotation(d, j) == ROTATIONS[(d % 8) + 1][j + 1] % iwidth

\* 0x1BD11BDAA9FC1A22 in 16-bit limbs, least significant first
SkeinConstLimbs == <<6690, 43516, 7130, 7121>>

\* tvm.tir.const(0x1BD11BDAA9FC1A22, dtype="uint64") at the model's width
SkeinConst == SkeinConstLimbs[1] % Modulus

\* (b << rotation) | (b >> (iwidth - rotation))
RotateLeft(b, rotation) == BitOr(Shl(b, rotation), Shr(b, iwidth - rotation))

\* full_key: the key (passed as a tuple of nwords words) with the xor of
\* its words and the constant appended
FullKey(key) ==
    << key[1], key[2], key[3], key[4],
       BitXor(BitXor(BitXor(BitXor(SkeinConst, key[1]), key[2]), key[3]), key[4]) >>

\* key_schedule(s, i); full_key[k] of the source is full_key[k + 1] here
key_schedule(full_key, s, i) ==
    IF i = nwords - 1
    THEN Add(full_key[((s + i) % (nwords + 1)) + 1], s)
    ELSE full_key[((s + i) % (nwords + 1)) + 1]

\* out_buf[.. + j] += key_schedule(i, j) for j in range(nwords)
InjectKey(x, full_key, s) ==
    << Add(x[1], key_schedule(full_key, s, 0)),
       Add(x[2], key_schedule(full_key, s, 1)),
       Add(x[3], key_schedule(full_key, s, 2)),
       Add(x[4], key_schedule(full_key, s, 3)) >>

\* The two stores of "(out[2j], out[2j+1]) = mix(out[2j], out[2j+1], rot)".
\* mix returns the expressions x = a + b and y = x ^ rotl(b) over *loads* of
\* the buffer, and the store of x to out[2j] is emitted before the store of
\* y: when y is evaluated, the load of out[2j] inside x already sees a + b.
MixFirst(a0, b0) == Add(a0, b0)

MixSecond(a0, b0, rotation) ==
    BitXor(Add(MixFirst(a0, b0), b0), RotateLeft(b0, rotation))

\* tmp[.. + j] = out_buf[.. + _PERMUTATIONS[nwords][j]]
Permute(x) ==
    << x[PERMUTATIONS[1] + 1], x[PERMUTATIONS[2] + 1],
       x[PERMUTATIONS[3] + 1], x[PERMUTATIONS[4] + 1] >>

\* one round k of stage i (d = i * 4 + k): the mixes of the nwords / 2 pairs,
\* then the permutation into the other buffer
Round(x, d) ==
    Permute(<< MixFirst(x[1], x[2]), MixSecond(x[1], x[2], Rotation(d, 0)),
               MixFirst(x[3], x[4]), MixSecond(x[3], x[4], Rotation(d, 1)) >>)

\* the rounds d, d + 1, .. of one stage; the test on Len makes the evaluator
\* compute each round's block before it goes on to the next round
RECURSIVE Rounds(_, _, _)
Rounds(x, d, count) ==
    IF Len(x) # nwords \/ count = 0 THEN x
    ELSE Rounds(Round(x, d), d + 1, count - 1)

\* stages i .. nrounds / 4 - 1: the key injection, then four rounds
RECURSIVE Stages(_, _, _)
Stages(x, full_key, i) ==
    IF Len(x) # nwords \/ i = nrounds \div 4 THEN x
    ELSE Stages(Rounds(InjectKey(x, full_key, i), i * 4, 4), full_key, i + 1)

\* the nwords output words of block l, as a tuple: the counter words, each
\* plus l, run through the rounds
ThreefryBlock(key, counter, l) ==
    Stages(<< Add(counter[1], l), Add(counter[2], l),
              Add(counter[3], l), Add(counter[4], l) >>, FullKey(key), 0)

\* the stores of blocks l .. out_shape - 1 to out_buf[out_offset + l * nwords + j]
RECURSIVE BlockStores(_, _, _, _, _)
BlockStores(key, counter, out_offset, l, out_shape) ==
    IF l >= out_shape THEN <<>>
    ELSE LET block == ThreefryBlock(key, counter, l)
         IN  << <<out_offset + l * nwords, block[1]>>,
                <<out_offset + l * nwords + 1, block[2]>>,
                <<out_offset + l * nwords + 2, block[3]>>,
                <<out_offset + l * nwords + 3, block[4]>> >>
             \o BlockStores(key, counter, out_offset, l + 1, out_shape)

\* _threefry(irb, key_buf, key_offset, counter_buf, counter_offset,
\*           out_buf, out_offset, out_shape)
\* the buffers are named; none of the three calls of the source passes the
\* output buffer as its key or counter buffer
_threefry(m, key_buf, key_offset, counter_buf, counter_offset, out_buf, out_offset, out_shape, junk) ==
    LET key == << Load(m, key_buf, key_offset, junk),
                  Load(m, key_buf, key_offset + 1, junk),
                  Load(m, key_buf, key_offset + 2, junk),
                  Load(m, key_buf, key_offset + 3, junk) >>
        counter == << Load(m, counter_buf, counter_offset, junk),
                      Load(m, counter_buf, counter_offset + 1, junk),
                      Load(m, counter_buf, counter_offset + 2, junk),
                      Load(m, counter_buf, counter_offset + 3, junk) >>
        blocks == BlockStores(key, counter, out_offset, 0, out_shape)
    IN  StoreSeq(m, out_buf, blocks)

(* ------------------ _threefry at the source's word width -------------- *)

\* The same stores on uint64 words.  A word is a tuple of four 16-bit
\* limbs, least significant first, so that no intermediate value leaves the
\* range of the evaluator's integers.
iwidth64 == 64

LimbBits == iwidth64 \div 4

LimbBase == Pow2(LimbBits)

Limb(x, i) == IF i \in 1 .. 4 THEN x[i] ELSE 0

\* tir.const(n, dtype="uint64") for n < 2 ** 16
Const64(n) == <<n, 0, 0, 0>>

\* tir.const(0xFFFFFFFFFFFFFFFF, dtype="uint64")
Max64 == <<LimbBase - 1, LimbBase - 1, LimbBase - 1, LimbBase - 1>>

\* uint64 +, wrapping
Add64(x, y) ==
    LET s1 == x[1] + y[1]
        s2 == x[2] + y[2] + (s1 \div LimbBase)
        s3 == x[3] + y[3] + (s2 \div LimbBase)
        s4 == x[4] + y[4] + (s3 \div LimbBase)
    IN  << s1 % LimbBase, s2 % LimbBase, s3 % LimbBase, s4 % LimbBase >>

Xor64(x, y) ==
    << BitXor(x[1], y[1]), BitXor(x[2], y[2]), BitXor(x[3], y[3]), BitXor(x[4], y[4]) >>

Or64(x, y) ==
    << BitOr(x[1], y[1]), BitOr(x[2], y[2]), BitOr(x[3], y[3]), BitOr(x[4], y[4]) >>

\* limb i of x << r: the low bits of limb i - q moved up by s, and the high
\* bits of the limb below it
ShlLimb(x, i, q, s) ==
    (Limb(x, i - q) % Pow2(LimbBits - s)) * Pow2(s)
        + (Limb(x, i - q - 1) \div Pow2(LimbBits - s))

\* uint64 <<, for 0 < r < 64
Shl64(x, r) ==
    << ShlLimb(x, 1, r \div LimbBits, r % LimbBits),
       ShlLimb(x, 2, r \div LimbBits, r % LimbBits),
       ShlLimb(x, 3, r \div LimbBits, r % LimbBits),
       ShlLimb(x, 4, r \div LimbBits, r % LimbBits) >>

\* limb i of x >> r
ShrLimb(x, i, q, s) ==
    (Limb(x, i + q) \div Pow2(s))
        + (Limb(x, i + q + 1) % Pow2(s)) * Pow2(LimbBits - s)

\* uint64 >>, for 0 < r < 64
Shr64(x, r) ==
    << ShrLimb(x, 1, r \div LimbBits, r % LimbBits),
       ShrLimb(x, 2, r \div LimbBits, r % LimbBits),
       ShrLimb(x, 3, r \div LimbBits, r % LimbBits),
       ShrLimb(x, 4, r \div LimbBits, r % LimbBits) >>

\* _ROTATIONS[nwords][d % 8][j]
Rotation64(d, j) == ROTATIONS[(d % 8) + 1][j + 1]

\* (b << rotation) | (b >> (iwidth - rotation))
RotateLeft64(b, rotation) ==
    Or64(Shl64(b, rotation), Shr64(b, iwidth64 - rotation))

FullKey64(key) ==
    << key[1], key[2], key[3], key[4],
       Xor64(Xor64(Xor64(Xor64(SkeinConstLimbs, key[1]), key[2]), key[3]), key[4]) >>

key_schedule64(full_key, s, i) ==
    IF i = nwords - 1
    THEN Add64(full_key[((s + i) % (nwords + 1)) + 1], Const64(s))
    ELSE full_key[((s + i) % (nwords + 1)) + 1]

InjectKey64(x, full_key, s) ==
    << Add64(x[1], key_schedule64(full_key, s, 0)),
       Add64(x[2], key_schedule64(full_key, s, 1)),
       Add64(x[3], key_schedule64(full_key, s, 2)),
       Add64(x[4], key_schedule64(full_key, s, 3)) >>

\* the store to out[2j], and the store to out[2j + 1] that follows it
MixFirst64(a0, b0) == Add64(a0, b0)

MixSecond64(a0, b0, rotation) ==
    Xor64(Add64(MixFirst64(a0, b0), b0), RotateLeft64(b0, rotation))

Round64(x, d) ==
    Permute(<< MixFirst64(x[1], x[2]), MixSecond64(x[1], x[2], Rotation64(d, 0)),
               MixFirst64(x[3], x[4]), MixSecond64(x[3], x[4], Rotation64(d, 1)) >>)

RECURSIVE Rounds64(_, _, _)
Rounds64(x, d, count) ==
    IF Len(x) # nwords \/ count = 0 THEN x
    ELSE Rounds64(Round64(x, d), d + 1, count - 1)

RECURSIVE Stages64(_, _, _)
Stages64(x, full_key, i) ==
    IF Len(x) # nwords \/ i = nrounds \div 4 THEN x
    ELSE Stages64(Rounds64(InjectKey64(x, full_key, i), i * 4, 4), full_key, i + 1)

ThreefryBlock64(key, counter, l) ==
    Stages64(<< Add64(counter[1], Const64(l)), Add64(counter[2], Const64(l)),
                Add64(counter[3], Const64(l)), Add64(counter[4], Const64(l)) >>,
             FullKey64(key), 0)

RECURSIVE BlockStores64(_, _, _, _, _)
BlockStores64(key, counter, out_offset, l, out_shape) ==
    IF l >= out_shape THEN <<>>
    ELSE LET block == ThreefryBlock64(key, counter, l)
         IN  << <<out_offset + l * nwords, block[1]>>,
                <<out_offset + l * nwords + 1, block[2]>>,
                <<out_offset + l * nwords + 2, block[3]>>,
                <<out_offset + l * nwords + 3, block[4]>> >>
             \o BlockStores64(key, counter, out_offset, l + 1, out_shape)

_threefry64(m, key_buf, key_offset, counter_buf, counter_offset, out_buf, out_offset, out_shape, junk) ==
    LET key == << Load(m, key_buf, key_offset, junk),
                  Load(m, key_buf, key_offset + 1, junk),
                  Load(m, key_buf, key_offset + 2, junk),
                  Load(m, key_buf, key_offset + 3, junk) >>
        counter == << Load(m, counter_buf, counter_offset, junk),
                      Load(m, counter_buf, counter_offset + 1, junk),
                      Load(m, counter_buf, counter_offset + 2, junk),
                      Load(m, counter_buf, counter_offset + 3, junk) >>
        blocks == BlockStores64(key, counter, out_offset, 0, out_shape)
    IN  StoreSeq(m, out_buf, blocks)

(* ----------------------------- _shift_right --------------------------- *)

\* 1 << 63, 0x8000000000000000: one in the leftmost position of a word
TopBit == Pow2(iwidth - 1)

\* 1 << 62: one in the second from the leftmost position
SecondBit == Pow2(iwidth - 2)

\* _shift_right, had it been written so that the bit is dropped at the word boundary
ShiftRightNoCarry(m, a, b, out_a, a_off, out_b, b_off) ==
    IF a = 0
    THEN Store(Store(m, out_a, a_off, 0), out_b, b_off, Shr(b, 1))
    ELSE Store(Store(m, out_a, a_off, Shr(a, 1)), out_b, b_off, 0)

\* Shift a 128bit number composed of two 64 bit words right by one
_shift_right(m, a, b, out_a, a_off, out_b, b_off) ==
    IF a = 1
    THEN Store(Store(m, out_a, a_off, 0), out_b, b_off, TopBit)
    ELSE IF a = 0
         THEN Store(Store(m, out_a, a_off, 0), out_b, b_off, Shr(b, 1))
         ELSE Store(Store(m, out_a, a_off, Shr(a, 1)), out_b, b_off, 0)

(* --------------------------- threefry_generate ------------------------ *)

\* the lengths the two asserts of threefry_generate accept:
\* out_len % 4 == 0 and out_len <= 2 ** 64 - 1
AcceptedLength(out_len) == out_len % 4 = 0 /\ out_len <= MaxWord

\* HasHeadroom with the length left out, and with the limit included
HasHeadroomIgnoringLength(gen, out_len) == gen[7] < MaxWord

HasHeadroomInclusive(gen, out_len) == gen[7] <= MaxWord - out_len

\* gen[7] < tir.const(2 ** 64 - 1) - out_len
HasHeadroom(gen, out_len) == gen[7] < MaxWord - out_len

\* "gen[8] == 0 and gen[9] == 0": Python's `and` does not build a conjunction
\* of the two comparison expressions, it returns one of them.  The truth
\* value of the first comparison object (is its left operand the same object
\* as the integer 0) is false, so the expression handed to if_scope is the
\* first comparison, gen[8] == 0.
PathExhausted(gen) == gen[8] = 0

\* for i in range(10): tmp[i] = gen[i]
GenerateKeep(m) ==
    StoreSeq(m, "tmp", [i \in 1 .. 10 |-> <<i - 1, m.gen[i - 1]>>])

\* GenerateRehash, had it been written so that the new key is hashed into gen itself
GenerateRehashInPlace(m, junk) ==
    LET m1 == StoreSeq(m, "tmp_counter", << <<0, MaxWord>>, <<1, MaxWord>> >>)
        m2 == _threefry(m1, "gen", 0, "tmp_counter", 0, "gen", 0, 1, junk)
        m3 == GenerateKeep(m2)
    IN  StoreSeq(m3, "tmp",
            << <<4, 0>>, <<5, 0>>, <<6, 0>>, <<7, 0>>, <<8, TopBit>>, <<9, 0>> >>)

\* out of room in the path: hash the key with the all-ones counter
GenerateRehash(m, junk) ==
    LET m1 == StoreSeq(m, "tmp_counter", << <<0, MaxWord>>, <<1, MaxWord>> >>)
        m2 == _threefry(m1, "gen", 0, "tmp_counter", 0, "tmp", 0, 1, junk)
    IN  StoreSeq(m2, "tmp",
            << <<4, 0>>, <<5, 0>>, <<6, 0>>, <<7, 0>>, <<8, TopBit>>, <<9, 0>> >>)

\* room in the path: add a one to the path, zero the counter, move the cursor
GenerateExtend(m) ==
    LET gen == m.gen
        m1 == StoreSeq(m, "tmp",
                << <<0, gen[0]>>, <<1, gen[1]>>, <<2, gen[2]>>, <<3, gen[3]>>,
                   <<4, BitOr(gen[4], gen[8])>>, <<5, BitOr(gen[5], gen[9])>>,
                   <<6, 0>>, <<7, 0>> >>)
    IN  _shift_right(m1, gen[8], gen[9], "tmp", 8, "tmp", 9)

GenerateBranch(gen, out_len) ==
    IF HasHeadroom(gen, out_len) THEN "keep"
    ELSE IF PathExhausted(gen) THEN "rehash"
    ELSE "extend"

\* the working state tmp
GenerateWorking(m, out_len, junk) ==
    IF HasHeadroom(m.gen, out_len) THEN GenerateKeep(m)
    ELSE IF PathExhausted(m.gen) THEN GenerateRehash(m, junk)
    ELSE GenerateExtend(m)

\* GenerateUpdate, had it been written so that the counter is not incremented
GenerateUpdateNoIncrement(m, out_len) ==
    LET tmp == m.tmp
    IN  StoreSeq(m, "out_gen",
            << <<0, tmp[0]>>, <<1, tmp[1]>>, <<2, tmp[2]>>, <<3, tmp[3]>>,
               <<4, tmp[4]>>, <<5, tmp[5]>>, <<6, 0>>,
               <<7, tmp[7]>>, <<8, tmp[8]>> >>)

\* "Update generator state": the stores to out_gen
GenerateUpdate(m, out_len) ==
    LET tmp == m.tmp
    IN  StoreSeq(m, "out_gen",
            << <<0, tmp[0]>>, <<1, tmp[1]>>, <<2, tmp[2]>>, <<3, tmp[3]>>,
               <<4, tmp[4]>>, <<5, tmp[5]>>, <<6, 0>>,
               <<7, Add(tmp[7], out_len)>>, <<8, tmp[8]>> >>)

\* gen_ir of threefry_generate
threefry_generate(m, out_len, junk) ==
    LET working == GenerateWorking(m, out_len, junk)
        values == _threefry(working, "tmp", 0, "tmp", 4, "out_array", 0,
                            out_len \div 4, junk)
    IN  GenerateUpdate(values, out_len)

\* the buffers of one call of threefry_generate: the input, and the scratch
\* and output buffers as allocated (every word holds whatever was there: u)
GenerateBuffers(gen, out_len, u) ==
    [gen |-> gen, tmp |-> Buf(10, u), tmp_counter |-> Buf(2, u),
     out_gen |-> Buf(10, u), out_array |-> Buf(out_len, u)]

(* ---------------------------- threefry_split -------------------------- *)

\* no room to extend the path: hash key, path and counter into a new key
SplitRehash(m, junk) ==
    LET m1 == _threefry(m, "gen", 0, "gen", 4, "out_left", 0, 1, junk)
        m2 == StoreSeq(m1, "out_left",
                << <<4, 0>>, <<5, 0>>, <<6, 0>>, <<7, 0>>,
                   <<8, SecondBit>>, <<9, 0>> >>)
        left == m2.out_left
    IN  StoreSeq(m2, "out_right",
            << <<0, left[0]>>, <<1, left[1]>>, <<2, left[2]>>, <<3, left[3]>>,
               <<4, TopBit>>, <<5, 0>>, <<6, 0>>, <<7, 0>>,
               <<8, SecondBit>>, <<9, 0>> >>)

\* SplitExtend, had it been written so that the right child does not get its path bit
SplitExtendSamePath(m) ==
    LET gen == m.gen
        m1 == StoreSeq(m, "out_left",
                << <<0, gen[0]>>, <<1, gen[1]>>, <<2, gen[2]>>, <<3, gen[3]>>,
                   <<4, gen[4]>>, <<5, gen[5]>>, <<6, gen[6]>>, <<7, gen[7]>> >>)
        m2 == _shift_right(m1, gen[8], gen[9], "out_left", 8, "out_left", 9)
        m3 == StoreSeq(m2, "out_right",
                << <<0, gen[0]>>, <<1, gen[1]>>, <<2, gen[2]>>, <<3, gen[3]>>,
                   <<4, gen[4]>>, <<5, gen[5]>>, <<6, gen[6]>>, <<7, gen[7]>> >>)
    IN  _shift_right(m3, gen[8], gen[9], "out_right", 8, "out_right", 9)

\* room in the path: left appends a zero, right appends a one
SplitExtend(m) ==
    LET gen == m.gen
        m1 == StoreSeq(m, "out_left",
                << <<0, gen[0]>>, <<1, gen[1]>>, <<2, gen[2]>>, <<3, gen[3]>>,
                   <<4, gen[4]>>, <<5, gen[5]>>, <<6, gen[6]>>, <<7, gen[7]>> >>)
        m2 == _shift_right(m1, gen[8], gen[9], "out_left", 8, "out_left", 9)
        m3 == StoreSeq(m2, "out_right",
                << <<0, gen[0]>>, <<1, gen[1]>>, <<2, gen[2]>>, <<3, gen[3]>>,
                   <<4, BitOr(gen[4], gen[8])>>, <<5, BitOr(gen[5], gen[9])>>,
                   <<6, gen[6]>>, <<7, gen[7]>> >>)
    IN  _shift_right(m3, gen[8], gen[9], "out_right", 8, "out_right", 9)

SplitBranch(gen) == IF PathExhausted(gen) THEN "rehash" ELSE "extend"

\* gen_ir of threefry_split
threefry_split(m, junk) ==
    IF PathExhausted(m.gen) THEN SplitRehash(m, junk) ELSE SplitExtend(m)

SplitBuffers(gen, u) ==
    [gen |-> gen, out_left |-> Buf(10, u), out_right |-> Buf(10, u)]

(* ------------------------------ the callers --------------------------- *)

VARIABLES
    a,        \* the generator state one part of the computation holds
    b,        \* the generator state another part holds
    forked,   \* FALSE while both parts still hold the same state
    ops,      \* operations applied so far
    call,     \* the last call: operation, length, branch, input state
    mem,      \* the buffers of the last call, as the call left them
    rerun,    \* the buffers of a second call made beside the last one
    pc        \* for each block of a _threefry call under way, the stages done

vars == <<a, b, forked, ops, call, mem, rerun, pc>>

\* What an allocated-but-unwritten word, or a word past the extent of a
\* buffer, may hold.  Any word is possible; the model takes the two extremes.
Uninit == {0, MaxWord}

\* memory past the extent of a buffer, every word holding u
Junk(u) == [i \in 0 .. 15 |-> u]

\* the keys a seed may carry
Keys == { <<0, 0, 0, 0>>, <<1, 2, 3, 4>> }

\* a generator state from its fields; key is a tuple of four words
State(key, path, counter, cursor) ==
    [i \in 0 .. 9 |->
        IF i < 4 THEN key[i + 1]
        ELSE IF i < 6 THEN path[i - 3]
        ELSE IF i < 8 THEN counter[i - 5]
        ELSE cursor[i - 7]]

\* threefry_seed: path = 0, counter = 0, cursor = (1 << 63, 0)
Seed(key) == State(key, <<0, 0>>, <<0, 0>>, <<TopBit, 0>>)

\* path and cursor as 2 * iwidth bit numbers
Path128(gen) == gen[4] * Modulus + gen[5]
Cursor128(gen) == gen[8] * Modulus + gen[9]

OneHot(c) == \E k \in 0 .. (2 * iwidth - 1) : c = Pow2(k)

\* cursor one-hot or zero, path bits at and below the cursor zero
WellFormed(gen) ==
    /\ Cursor128(gen) = 0 \/ OneHot(Cursor128(gen))
    /\ Cursor128(gen) # 0 => Path128(gen) % (2 * Cursor128(gen)) = 0

\* the two words of a 2 * iwidth bit number
Words128(x) == << x \div Modulus, x % Modulus >>

\* the one-hot cursors, and the exhausted cursor 0
Cursors == {0} \cup {Pow2(k) : k \in 0 .. (2 * iwidth - 1)}

\* well-formed states of one key with any path, low counter word and cursor
WellFormedStates ==
    {gen \in {State(key, Words128(path), <<0, c1>>, Words128(cursor)) :
                key \in {<<1, 2, 3, 4>>}, path \in 0 .. (Modulus * Modulus - 1),
                c1 \in Word, cursor \in Cursors} : WellFormed(gen)}

NoCall == [op |-> "none"]
NoBuffers == [gen |-> <<>>]

InitFrom(states) ==
    /\ a \in states
    /\ b = a
    /\ forked = FALSE
    /\ ops = 0
    /\ call = NoCall
    /\ mem = NoBuffers
    /\ rerun = NoBuffers
    /\ pc = <<>>

\* the computation starts from a seed
Init == InitFrom({Seed(key) : key \in Keys})

\* one call on any well-formed state
InitAny == InitFrom(WellFormedStates)

Holder(who) == IF who = "b" THEN b ELSE a

\* who may act: both parts together until they fork, then each on its own
MayAct(who, limit) ==
    /\ ops < limit
    /\ IF forked THEN who \in {"a", "b"} ELSE who = "both"

\* the part(s) who now hold state s
Hold(who, s) ==
    /\ a' = IF who \in {"a", "both"} THEN s ELSE a
    /\ b' = IF who \in {"b", "both"} THEN s ELSE b

\* out_gen, out_array = threefry_generate(gen, shape); the caller keeps out_gen
Generate(who, out_len, u, limit) ==
    /\ MayAct(who, limit)
    /\ AcceptedLength(out_len)
    /\ \E after \in {threefry_generate(GenerateBuffers(Holder(who), out_len, u),
                                       out_len, Junk(u))} :
          /\ mem' = after
          /\ Hold(who, after.out_gen)
    /\ call' = [op |-> "generate", out_len |-> out_len,
                branch |-> GenerateBranch(Holder(who), out_len), gen |-> Holder(who)]
    /\ ops' = ops + 1
    /\ rerun' = NoBuffers
    /\ UNCHANGED <<forked, pc>>

\* left, right = threefry_split(gen); the caller goes on with one of them
Split(who, side, u, limit) ==
    /\ MayAct(who, limit)
    /\ \E after \in {threefry_split(SplitBuffers(Holder(who), u), Junk(u))} :
          /\ mem' = after
          /\ Hold(who, IF side = "left" THEN after.out_left ELSE after.out_right)
    /\ call' = [op |-> "split", branch |-> SplitBranch(Holder(who)), gen |-> Holder(who)]
    /\ ops' = ops + 1
    /\ rerun' = NoBuffers
    /\ UNCHANGED <<forked, pc>>

\* left, right = threefry_split(gen); one part takes left, the other right
Fork(u, limit) ==
    /\ MayAct("both", limit)
    /\ \E after \in {threefry_split(SplitBuffers(a, u), Junk(u))} :
          /\ mem' = after
          /\ a' = after.out_left
          /\ b' = after.out_right
    /\ call' = [op |-> "split", branch |-> SplitBranch(a), gen |-> a]
    /\ forked' = TRUE
    /\ ops' = ops + 1
    /\ rerun' = NoBuffers
    /\ UNCHANGED pc

\* the last threefry_generate call, run once more on the same input and
\* length, with its own scratch and output buffers
Rerun(u) ==
    /\ call.op = "generate"
    /\ rerun = NoBuffers
    /\ rerun' = threefry_generate(GenerateBuffers(call.gen, call.out_len, u),
                                  call.out_len, Junk(u))
    /\ UNCHANGED <<a, b, forked, ops, call, mem, pc>>

\* one lineage from a seed; a caller asks for at least one value
Next ==
    \/ \E out_len \in 1 .. MaxWord, u \in Uninit : Generate("both", out_len, u, MaxOps)
    \/ \E side \in {"left", "right"}, u \in Uninit : Split("both", side, u, MaxOps)

Spec == Init /\ [][Next]_vars

\* two lineages from a seed: one until they fork, then each on its own
NextFork ==
    \/ \E who \in {"both", "a", "b"}, out_len \in 1 .. MaxWord, u \in Uninit :
          Generate(who, out_len, u, MaxOps)
    \/ \E who \in {"both", "a", "b"}, side \in {"left", "right"}, u \in Uninit :
          Split(who, side, u, MaxOps)
    \/ \E u \in Uninit : Fork(u, MaxOps)

SpecFork == Init /\ [][NextFork]_vars

\* one call on any well-formed state, of any length
NextAny ==
    \/ \E out_len \in 0 .. MaxWord, u \in Uninit : Generate("both", out_len, u, 1)
    \/ \E u \in Uninit : Fork(u, 1)

SpecAny == InitAny /\ [][NextAny]_vars

\* one call of threefry_generate on any well-formed state, and a second run
\* of the same call
NextTwice ==
    \/ \E out_len \in 0 .. MaxWord, u \in Uninit : Generate("both", out_len, u, 1)
    \/ \E u \in Uninit : Rerun(u)

SpecTwice == InitAny /\ [][NextTwice]_vars

\* values, _ = threefry_generate(leaf, shape) with one block of values, on
\* the two leaves the parts hold: mem has the buffers of the call on a,
\* rerun those of the call on b
GenerateLeaves(u) ==
    /\ forked
    /\ call.op = "split"
    /\ AcceptedLength(nwords)
    /\ mem' = threefry_generate(GenerateBuffers(a, nwords, u), nwords, Junk(u))
    /\ rerun' = threefry_generate(GenerateBuffers(b, nwords, u), nwords, Junk(u))
    /\ call' = [op |-> "leaves", out_len |-> nwords, gen |-> a, other |-> b]
    /\ UNCHANGED <<a, b, forked, ops, pc>>

\* a tree of splits from a seed, and one block of values from two of its leaves
NextLeaves ==
    \/ \E who \in {"both", "a", "b"}, side \in {"left", "right"}, u \in Uninit :
          Split(who, side, u, MaxOps)
    \/ \E u \in Uninit : Fork(u, MaxOps)
    \/ \E u \in Uninit : GenerateLeaves(u)

SpecLeaves == Init /\ [][NextLeaves]_vars

\* a tuple of words as a buffer indexed from 0
AsBuffer(t) == [i \in 0 .. (Len(t) - 1) |-> t[i + 1]]

\* the uint64 words the keys and plaintexts of the single-block runs are made of
Words64 == {Const64(0), Const64(1), Max64}

Keys64 == {<<w, w, w, w>> : w \in Words64}

Plaintexts64 == {<<w0, w1, w2, w3>> : w0 \in Words64, w1 \in Words64, w2 \in Words64, w3 \in Words64}

\* _threefry(irb, key, 0, counter, 0, out, 0, 1) on uint64 buffers: one block
Block64(key, counter, u) ==
    /\ call.op = "none"
    /\ \E after \in {_threefry64([key |-> AsBuffer(key), counter |-> AsBuffer(counter),
                                  out |-> Buf(nwords, u)],
                                 "key", 0, "counter", 0, "out", 0, 1, Junk(u))} :
          mem' = after
    /\ call' = [op |-> "_threefry", key |-> key, counter |-> counter]
    /\ UNCHANGED <<a, b, forked, ops, rerun, pc>>

NextBlock64 ==
    \E key \in Keys64, counter \in Plaintexts64, u \in {Const64(0), Max64} :
        Block64(key, counter, u)

\* single blocks of _threefry at the source's word width
SpecBlock64 == InitFrom({Seed(<<0, 0, 0, 0>>)}) /\ [][NextBlock64]_vars

(* --------------------- _threefry, block by block ---------------------- *)

\* The loop over the blocks l of _threefry, one stage (a key injection and
\* its four rounds) of one block at a time.  out is the caller's output buffer.  heap is the memory of the two
\* allocations of _threefry: the scratch tmp, allocated with out_shape words
\* at address 0 and indexed up to 4 * out_shape - 1, and full_key, with
\* nwords + 1 words from address full_key_at on.  Where full_key lies
\* relative to the words behind the scratch's extent is the allocator's
\* choice: right behind the extent (out_shape), or clear of every word the
\* scratch is indexed at (4 * out_shape).

\* full_key as the loads of one key injection see it
FullKeyAt(m, full_key_at) ==
    << m.heap[full_key_at], m.heap[full_key_at + 1], m.heap[full_key_at + 2],
       m.heap[full_key_at + 3], m.heap[full_key_at + 4] >>

\* the four words of block l of a buffer
BlockOf(m, buf, l) ==
    << m[buf][l * nwords], m[buf][l * nwords + 1],
       m[buf][l * nwords + 2], m[buf][l * nwords + 3] >>

\* the stores of a tuple of four words to the words of block l
BlockStoresOf(x, l) ==
    << <<l * nwords, x[1]>>, <<l * nwords + 1, x[2]>>,
       <<l * nwords + 2, x[3]>>, <<l * nwords + 3, x[4]>> >>

\* the nrounds // 2 pairs of mixes of round d, before the permutation
Mixes(x, d) ==
    << MixFirst(x[1], x[2]), MixSecond(x[1], x[2], Rotation(d, 0)),
       MixFirst(x[3], x[4]), MixSecond(x[3], x[4], Rotation(d, 1)) >>

\* Round d of block l.  out_buf and tmp change roles after every round: in
\* the even rounds the mixes are stored to out and the permutation to tmp,
\* in the odd rounds the other way round.  Rounds 0, 4, 8, .. begin with
\* the key injection, which loads full_key.
RoundStores(m, full_key_at, l, d) ==
    LET cur == IF d % 2 = 0 THEN "out" ELSE "heap"
        other == IF d % 2 = 0 THEN "heap" ELSE "out"
        loaded == BlockOf(m, cur, l)
        injected == IF d % 4 = 0
                    THEN InjectKey(loaded, FullKeyAt(m, full_key_at), d \div 4)
                    ELSE loaded
        mixed == Mixes(injected, d)
    IN  StoreSeq(StoreSeq(m, cur, BlockStoresOf(mixed, l)),
                 other, BlockStoresOf(Permute(mixed), l))

\* out_buf[i * nwords + j] = counter_buf[j] + i, for the blocks i, i + 1, ..
RECURSIVE CounterStores(_, _, _)
CounterStores(counter, i, out_shape) ==
    IF i >= out_shape THEN <<>>
    ELSE BlockStoresOf(<< Add(counter[1], i), Add(counter[2], i),
                          Add(counter[3], i), Add(counter[4], i) >>, i)
         \o CounterStores(counter, i + 1, out_shape)

\* the buffers when the loop over the blocks begins: full_key and the
\* counters are stored
BlocksBegin(key, counter, out_shape, full_key_at, u) ==
    LET m0 == [out |-> Buf(nwords * out_shape, u),
               heap |-> Buf(nwords * out_shape + nwords + 1, u)]
        full_key == FullKey(key)
        m1 == StoreSeq(m0, "heap",
                << <<full_key_at, full_key[1]>>, <<full_key_at + 1, full_key[2]>>,
                   <<full_key_at + 2, full_key[3]>>, <<full_key_at + 3, full_key[4]>>,
                   <<full_key_at + 4, full_key[5]>> >>)
    IN  StoreSeq(m1, "out", CounterStores(counter, 0, out_shape))

\* stage i of block l: the rounds 4 * i .. 4 * i + 3
StageStores(m, full_key_at, l, i) ==
    RoundStores(RoundStores(RoundStores(RoundStores(m, full_key_at, l, 4 * i),
                                        full_key_at, l, 4 * i + 1),
                            full_key_at, l, 4 * i + 2),
                full_key_at, l, 4 * i + 3)

\* the loop over the blocks in program order, from stage i of block l on;
\* the test on m.out makes the evaluator finish a stage before the next
RECURSIVE BlocksInOrder(_, _, _, _, _)
BlocksInOrder(m, full_key_at, l, i, out_shape) ==
    IF l >= out_shape \/ DOMAIN m.out = {} THEN m
    ELSE IF i = nrounds \div 4 THEN BlocksInOrder(m, full_key_at, l + 1, 0, out_shape)
    ELSE BlocksInOrder(StageStores(m, full_key_at, l, i), full_key_at, l, i + 1, out_shape)

\* the plaintexts of the block-by-block runs
BlockCounters == { <<0, 0, 0, 0>>, <<1, 2, 3, 4>>, <<MaxWord, MaxWord, 0, 0>> }

\* a call of _threefry reaches its loop over the blocks
BeginBlocks(key, counter, out_shape, full_key_at, u) ==
    /\ call.op = "none"
    /\ mem' = BlocksBegin(key, counter, out_shape, full_key_at, u)
    /\ call' = [op |-> "blocks", key |-> key, counter |-> counter,
                out_shape |-> out_shape, full_key_at |-> full_key_at, u |-> u]
    /\ pc' = [l \in 0 .. (out_shape - 1) |-> 0]
    /\ UNCHANGED <<a, b, forked, ops, rerun>>

\* some block that has stages left runs its next stage
BlockStage(l) ==
    /\ call.op = "blocks"
    /\ l \in DOMAIN pc
    /\ pc[l] < nrounds \div 4
    /\ mem' = StageStores(mem, call.full_key_at, l, pc[l])
    /\ pc' = [pc EXCEPT ![l] = @ + 1]
    /\ UNCHANGED <<a, b, forked, ops, call, rerun>>

NextBlocks ==
    \/ \E key \in Keys, counter \in BlockCounters, out_shape \in 1 .. 2, u \in Uninit :
          \E full_key_at \in {out_shape, nwords * out_shape} :
              BeginBlocks(key, counter, out_shape, full_key_at, u)
    \/ \E l \in 0 .. 1 : BlockStage(l)

\* the blocks of one _threefry call, their stages in any order
SpecBlocks == InitFrom({Seed(<<0, 0, 0, 0>>)}) /\ [][NextBlocks]_vars

(* ------------------------------ scatter.py ---------------------------- *)

\* A tensor is a record of its shape and of its elements, row-major, in a
\* buffer indexed from 0.
Tensor(shape, elems) == [shape |-> shape, buf |-> AsBuffer(elems)]

RECURSIVE Product(_)
Product(shape) == IF shape = <<>> THEN 1 ELSE Head(shape) * Product(Tail(shape))

\* the tail of a shape from dimension k on (dimensions counted from 0)
ShapeFrom(shape, k) == SubSeq(shape, k + 1, Len(shape))

\* the asserts of scatter_nd on the shapes
ScatterNdAccepts(data, indices, shape) ==
    /\ indices.shape[1] <= Len(shape)
    /\ \A i \in 0 .. (Len(indices.shape) - 2) : indices.shape[i + 2] = data.shape[i + 1]
    /\ \A i \in indices.shape[1] .. (Len(shape) - 1) :
          data.shape[i - indices.shape[1] + 1] = shape[i + 1]

\* for l in reversed(range(M)): index += offset * indices[i + l * fid];
\*                              offset *= shape[l]
RECURSIVE NdIndex(_, _, _, _, _, _, _)
NdIndex(indices, shape, fused_indices_dimension, i, l, index, offset) ==
    IF l < 0 THEN index
    ELSE NdIndex(indices, shape, fused_indices_dimension, i, l - 1,
                 index + offset * indices[i + l * fused_indices_dimension],
                 offset * shape[l + 1])

\* AssertStmt(indices[i + l * fid] < shape[l], "index out of bounds") for each l
NdAssertsHold(indices, shape, fused_indices_dimension, mdim, i) ==
    \A l \in 0 .. (mdim - 1) : indices[i + l * fused_indices_dimension] < shape[l + 1]

\* out[index] = val; a store outside the buffer leaves the buffer as it is
NdStore(out, index, val) ==
    IF index \in DOMAIN out THEN [out EXCEPT ![index] = val] ELSE out

\* The two loops of gen_ir from iteration n = i * fdd + j on.  m.written
\* records the stores carried out, as <<i, j, index>>; a failed assertion
\* ends the run.
RECURSIVE ScatterNdLoop(_, _, _, _, _, _)
ScatterNdLoop(m, shape, fused_indices_dimension, fused_data_dimension, mdim, n) ==
    IF n >= fused_indices_dimension * fused_data_dimension THEN m
    ELSE IF ~NdAssertsHold(m.indices, shape, fused_indices_dimension, mdim, n \div fused_data_dimension)
    THEN [m EXCEPT !.status = "index out of bounds"]
    ELSE LET i == n \div fused_data_dimension
             j == n % fused_data_dimension
             index == NdIndex(m.indices, shape, fused_indices_dimension, i, mdim - 1,
                              j, fused_data_dimension)
         IN  ScatterNdLoop([m EXCEPT !.out = NdStore(@, index, m.data[n]),
                                     !.written = @ \cup {<<i, j, index>>}],
                           shape, fused_indices_dimension, fused_data_dimension, mdim, n + 1)

\* gen_ir of scatter_nd: zero the output, then the two loops
scatter_nd(data, indices, shape) ==
    ScatterNdLoop([data |-> data.buf, indices |-> indices.buf,
                   out |-> Buf(Product(shape), 0), status |-> "ok", written |-> {}],
                  shape, Product(ShapeFrom(indices.shape, 1)),
                  Product(ShapeFrom(data.shape, indices.shape[1])), indices.shape[1], 0)

\* AxisIndex, had a negative index been counted from the start of the axis
AxisIndexFromStart(idx, extent) == IF idx >= 0 THEN idx ELSE 0 - idx - 1

\* indices[..] if indices[..] >= 0 else indices[..] + data.shape[axis]
AxisIndex(idx, extent) == IF idx >= 0 THEN idx ELSE idx + extent

\* for i in range(indices.shape[0]): out[...] = updates[i], from iteration i on
RECURSIVE Scatter1dLoop(_, _, _, _)
Scatter1dLoop(out, indices, updates, i) ==
    IF i >= indices.shape[1] THEN out
    ELSE Scatter1dLoop(
            [out EXCEPT !.buf[AxisIndex(indices.buf[i], out.shape[1])] = updates.buf[i]],
            indices, updates, i + 1)

\* out is a copy of data, then the loop over indices
_scatter_1d(data, indices, updates) == Scatter1dLoop(data, indices, updates, 0)

\* the position out[idx, j] (axis == 0) or out[i, idx] (else) in the buffer
Scatter2dAt(out, axis, i, j, idx) ==
    IF axis = 0 THEN idx * out.shape[2] + j ELSE i * out.shape[2] + idx

\* the nested loops over i and j, from iteration n = i * indices.shape[1] + j on
RECURSIVE Scatter2dLoop(_, _, _, _, _)
Scatter2dLoop(out, indices, updates, axis, n) ==
    IF n >= indices.shape[1] * indices.shape[2] THEN out
    ELSE LET i == n \div indices.shape[2]
             j == n % indices.shape[2]
             idx == AxisIndex(indices.buf[n], out.shape[axis + 1])
         IN  Scatter2dLoop(
                [out EXCEPT !.buf[Scatter2dAt(out, axis, i, j, idx)] =
                                updates.buf[i * updates.shape[2] + j]],
                indices, updates, axis, n + 1)

_scatter_2d(data, indices, updates, axis) == Scatter2dLoop(data, indices, updates, axis, 0)

\* if axis < 0: axis += len(data.shape)
ScatterAxis(data, axis) == IF axis < 0 THEN axis + Len(data.shape) ELSE axis

\* assert axis >= 0; assert axis < len(data.shape)
ScatterAccepts(data, axis) ==
    ScatterAxis(data, axis) >= 0 /\ ScatterAxis(data, axis) < Len(data.shape)

\* scatter for the ranks 1 and 2 (ranks 3 and 4 repeat the pattern of rank 2)
scatter(data, indices, updates, axis) ==
    IF Len(data.shape) = 1 THEN _scatter_1d(data, indices, updates)
    ELSE _scatter_2d(data, indices, updates, ScatterAxis(data, axis))

\* inputs of scatter: a vector of 3 with 2 updates, a 2 x 2 matrix with
\* 2 x 2 updates; every entry of indices within [-extent, extent)
ScatterInputs ==
    {[data |-> Tensor(<<3>>, <<10, 11, 12>>), indices |-> Tensor(<<2>>, <<i0, i1>>),
      updates |-> Tensor(<<2>>, <<20, 21>>)] : i0 \in -3 .. 2, i1 \in -3 .. 2}
    \cup
    {[data |-> Tensor(<<2, 2>>, <<10, 11, 12, 13>>),
      indices |-> Tensor(<<2, 2>>, <<i0, i1, i2, i3>>),
      updates |-> Tensor(<<2, 2>>, <<20, 21, 22, 23>>)] :
        i0 \in -2 .. 1, i1 \in -2 .. 1, i2 \in -2 .. 1, i3 \in -2 .. 1}

\* inputs of scatter_nd for the output shape (2, 2): indices of shape (2, 2)
\* with data of shape (2), indices of shape (1, 2) with data of shape (2, 2);
\* an entry of indices is in range, one too large, or negative
ScatterNdInputs ==
    {[data |-> Tensor(<<2>>, <<d0, d1>>), indices |-> Tensor(<<2, 2>>, <<i0, i1, i2, i3>>)] :
        d0 \in 1 .. 2, d1 \in 1 .. 2,
        i0 \in -1 .. 2, i1 \in -1 .. 2, i2 \in -1 .. 2, i3 \in -1 .. 2}
    \cup
    {[data |-> Tensor(<<2, 2>>, <<1, 2, 3, 4>>), indices |-> Tensor(<<1, 2>>, <<i0, i1>>)] :
        i0 \in -1 .. 2, i1 \in -1 .. 2}

Scatter(in, axis) ==
    /\ call.op = "none"
    /\ ScatterAccepts(in.data, axis)
    /\ mem' = scatter(in.data, in.indices, in.updates, axis)
    /\ call' = [op |-> "scatter", data |-> in.data, indices |-> in.indices,
                updates |-> in.updates, axis |-> ScatterAxis(in.data, axis)]
    /\ UNCHANGED <<a, b, forked, ops, rerun, pc>>

ScatterNd(in, shape) ==
    /\ call.op = "none"
    /\ ScatterNdAccepts(in.data, in.indices, shape)
    /\ mem' = scatter_nd(in.data, in.indices, shape)
    /\ call' = [op |-> "scatter_nd", data |-> in.data, indices |-> in.indices,
                shape |-> shape]
    /\ UNCHANGED <<a, b, forked, ops, rerun, pc>>

NextScatter ==
    \/ \E in \in ScatterInputs, axis \in -2 .. 2 : Scatter(in, axis)
    \/ \E in \in ScatterNdInputs : ScatterNd(in, <<2, 2>>)

\* single calls of scatter and scatter_nd
SpecScatter == InitFrom({Seed(<<0, 0, 0, 0>>)}) /\ [][NextScatter]_vars

\* fused_indices_dimension, fused_data_dimension and the number of
\* iterations of a scatter_nd call c
NdFusedIndices(c) == Product(ShapeFrom(c.indices.shape, 1))

NdFusedData(c) == Product(ShapeFrom(c.data.shape, c.indices.shape[1]))

NdIterations(c) == NdFusedIndices(c) * NdFusedData(c)

\* the output location of iteration n = i * fdd + j of call c
NdTarget(c, n) ==
    NdIndex(c.indices.buf, c.shape, NdFusedIndices(c), n \div NdFusedData(c),
            c.indices.shape[1] - 1, n % NdFusedData(c), NdFusedData(c))

\* the entries of indices iteration i reads are all inside [0, shape[l])
NdIndexValuesInRange(c, i) ==
    \A l \in 0 .. (c.indices.shape[1] - 1) :
        /\ c.indices.buf[i + l * NdFusedIndices(c)] >= 0
        /\ c.indices.buf[i + l * NdFusedIndices(c)] < c.shape[l + 1]

NdAllInRange(c) == \A i \in 0 .. (NdFusedIndices(c) - 1) : NdIndexValuesInRange(c, i)

\* the sum of the data elements of iterations n, n + 1, .. that map to q
RECURSIVE NdSum(_, _, _)
NdSum(c, q, n) ==
    IF n >= NdIterations(c) THEN 0
    ELSE (IF NdTarget(c, n) = q THEN c.data.buf[n] ELSE 0) + NdSum(c, q, n + 1)

\* the coordinate along the axis that iteration n of a scatter call c names:
\* indices[n], or indices[n] + data.shape[axis] when indices[n] is negative
ScatterCoordinate(c, n) ==
    IF c.indices.buf[n] < 0 THEN c.indices.buf[n] + c.data.shape[c.axis + 1]
    ELSE c.indices.buf[n]

\* the position iteration n names: that coordinate along the axis, the
\* other coordinates those of n
ScatterTarget(c, n) ==
    IF Len(c.data.shape) = 1 THEN ScatterCoordinate(c, n)
    ELSE IF c.axis = 0
         THEN ScatterCoordinate(c, n) * c.data.shape[2] + (n % c.indices.shape[2])
         ELSE (n \div c.indices.shape[2]) * c.data.shape[2] + ScatterCoordinate(c, n)

\* the iterations that write position q, by their row-major rank
ScatterWriters(c, q) == {n \in DOMAIN c.indices.buf : ScatterTarget(c, n) = q}

Latest(ns) == CHOOSE n \in ns : \A k \in ns : k <= n

(* ------------------------------- claims ------------------------------- *)

\* C1: starting from a seed, with every state consumed by at most one
\* operation, no two generator states of the resulting tree are identical
\* in all ten words.  Stated for the two states the parts hold once they
\* have forked: two different nodes of the tree, in the two subtrees of a
\* split.
C1_TreeStatesDistinct == forked => a # b

\* C2: for every well-formed state, the two states threefry_split returns
\* differ, in the rehash branch and in the extend branch.
C2_SplitChildrenDiffer ==
    call.op = "split" => mem.out_left # mem.out_right

C2_SplitOfWrittenPath ==
    /\ call.op = "split"
    /\ call.branch = "extend"
    /\ call.gen[4] # 0
    /\ mem.out_left[8] = mem.out_right[8]

\* C3: in every state reachable from a seed the cursor (words 8 and 9) has
\* exactly one bit set or is zero.
C3_CursorOneHotOrZero == Cursor128(a) = 0 \/ OneHot(Cursor128(a))

\* C4: in every state reachable from a seed every path bit at the cursor
\* position and at every less significant position is zero.
C4_PathClearUpToCursor ==
    OneHot(Cursor128(a)) => Path128(a) % (2 * Cursor128(a)) = 0

\* C5: the low counter word of every produced state is never the sentinel
\* 2^64 - 1, and the addition tmp[7] + out_len that produces the counter of
\* a successor never wraps.
C5_CounterBelowSentinel ==
    /\ a[7] # MaxWord
    /\ call.op = "generate" =>
          /\ mem.tmp[7] + call.out_len <= MaxWord
          /\ mem.out_gen[7] = mem.tmp[7] + call.out_len

C5_GenerateWithoutHeadroom ==
    /\ call.op = "generate"
    /\ call.out_len > 0
    /\ call.gen[7] + call.out_len > MaxWord
    /\ a[7] = call.out_len

\* C6: when threefry_generate has headroom (counter[1] < 2^64 - 1 - n) the
\* successor has counter[1] = counter[1] + n, counter[0] = 0, and the key
\* and the path of the input.
C6_HeadroomSuccessor ==
    (call.op = "generate" /\ call.gen[7] + call.out_len < MaxWord) =>
        /\ mem.out_gen[7] = call.gen[7] + call.out_len
        /\ mem.out_gen[6] = 0
        /\ \A i \in 0 .. 5 : mem.out_gen[i] = call.gen[i]

C6_HeadroomAdvance ==
    /\ call.op = "generate"
    /\ call.gen[7] + call.out_len < MaxWord
    /\ call.out_len > 0
    /\ call.gen[7] > 0
    /\ call.gen[4] # 0
    /\ mem.out_gen[7] > call.gen[7]

\* C7: the successor of threefry_generate carries both cursor words of the
\* working state: the input's cursor in the headroom branch, the cursor the
\* branch computed otherwise.
C7_SuccessorCarriesCursor ==
    (call.op = "generate" /\ call.out_len > 0) =>
        /\ mem.out_gen[8] = mem.tmp[8]
        /\ mem.out_gen[9] = mem.tmp[9]
        /\ call.branch = "keep" =>
              mem.out_gen[8] = call.gen[8] /\ mem.out_gen[9] = call.gen[9]

\* C8: with counter[1] >= 2^64 - 1 - n threefry_generate never takes the
\* headroom branch: the counter is reset, and the block counters
\* counter[1] + i, i < n / 4, never wrap.
C8_ExhaustionResetsCounter ==
    call.op = "generate" =>
        /\ call.gen[7] >= MaxWord - call.out_len =>
              call.branch \in {"rehash", "extend"} /\ mem.tmp[7] = 0
        /\ \A i \in 0 .. ((call.out_len \div 4) - 1) : mem.tmp[7] + i <= MaxWord

C8_CounterAtLimit ==
    /\ call.op = "generate"
    /\ call.out_len > 0
    /\ call.gen[7] = MaxWord - call.out_len
    /\ mem.tmp[7] = 0

\* C9: two runs of threefry_generate on the same state and length return
\* equal value arrays and successors equal in all ten words.
C9_GenerateDeterministic ==
    (rerun # NoBuffers /\ call.out_len > 0) =>
        /\ rerun.out_array = mem.out_array
        /\ rerun.out_gen = mem.out_gen

C11_OnlyPositiveMultiplesOfFour ==
    call.op = "generate" => (call.out_len > 0 /\ call.out_len % 4 = 0)

C13_KnownAnswer ==
    (/\ call.op = "_threefry"
     /\ call.key = <<Const64(0), Const64(0), Const64(0), Const64(0)>>
     /\ call.counter = <<Const64(0), Const64(0), Const64(0), Const64(0)>>) =>
        /\ mem.out[0] = <<21815, 59080, 36541, 2337>>
        /\ mem.out[1] = <<24837, 26328, 8018, 21908>>
        /\ mem.out[2] = <<13532, 10276, 24086, 19410>>
        /\ mem.out[3] = <<58379, 27602, 60548, 60969>>

\* C14: scatter_nd sums colliding writes: with every index in range, each
\* output location holds the sum of the data elements that map to it, and 0
\* where none does.
C14_CollidingWritesSummed ==
    (call.op = "scatter_nd" /\ NdAllInRange(call)) =>
        \A q \in DOMAIN mem.out : mem.out[q] = NdSum(call, q, 0)

\* C15: in scatter_nd an index value outside [0, shape[l]) fails the
\* assertion "index out of bounds" before the write of its iteration: a run
\* with such a value ends in the failure, and every write carried out
\* belongs to an iteration whose index values are all in range.
C15_OutOfBoundsAsserted ==
    call.op = "scatter_nd" =>
        /\ ~NdAllInRange(call) => mem.status = "index out of bounds"
        /\ \A w \in mem.written :
              NdIndexValuesInRange(call, w[1]) /\ w[3] \in DOMAIN mem.out

C17_BlocksIndependent ==
    (call.op = "blocks" /\ \A l \in DOMAIN pc : pc[l] = nrounds \div 4) =>
        mem.out = BlocksInOrder(BlocksBegin(call.key, call.counter, call.out_shape,
                                            call.full_key_at, call.u),
                                call.full_key_at, 0, 0, call.out_shape).out

\* shift_right_one of a cursor (hi, lo): the bit crosses the word boundary
\* when hi = 1, lo is shifted when hi = 0, hi is shifted otherwise
ShiftRightOne(hi, lo) ==
    IF hi = 1 THEN <<0, TopBit>>
    ELSE IF hi = 0 THEN <<0, Shr(lo, 1)>>
    ELSE <<Shr(hi, 1), 0>>

\* the key words of a generator state, as a tuple
KeyOf(gen) == <<gen[0], gen[1], gen[2], gen[3]>>

\* C18: without counter headroom and with the cursor exhausted, the
\* successor of threefry_generate has the key _threefry(key, plaintext
\* [2^64 - 1, 2^64 - 1, 0, 0]), path 0, counter[1] = n and cursor (1 << 63, 0).
C18_RehashSuccessor ==
    (/\ call.op = "generate"
     /\ call.out_len > 0
     /\ ~(call.gen[7] < MaxWord - call.out_len)
     /\ Cursor128(call.gen) = 0) =>
        /\ KeyOf(mem.out_gen) = ThreefryBlock(KeyOf(call.gen), <<MaxWord, MaxWord, 0, 0>>, 0)
        /\ mem.out_gen[4] = 0 /\ mem.out_gen[5] = 0
        /\ mem.out_gen[6] = 0 /\ mem.out_gen[7] = call.out_len
        /\ mem.out_gen[8] = TopBit /\ mem.out_gen[9] = 0

\* C19: without counter headroom and with the cursor not exhausted, the
\* values are those of (key, path OR cursor, counter 0), and the successor
\* has the key of the input, path OR cursor, counter[1] = n and the cursor
\* shifted right by one.
C19_ExtendSuccessor ==
    (/\ call.op = "generate"
     /\ call.out_len > 0
     /\ ~(call.gen[7] < MaxWord - call.out_len)
     /\ Cursor128(call.gen) # 0) =>
        /\ \A i \in 0 .. ((call.out_len \div 4) - 1) :
              BlockOf(mem, "out_array", i) =
                  ThreefryBlock(KeyOf(call.gen),
                                << BitOr(call.gen[4], call.gen[8]),
                                   BitOr(call.gen[5], call.gen[9]), 0, 0 >>, i)
        /\ KeyOf(mem.out_gen) = KeyOf(call.gen)
        /\ mem.out_gen[4] = BitOr(call.gen[4], call.gen[8])
        /\ mem.out_gen[5] = BitOr(call.gen[5], call.gen[9])
        /\ mem.out_gen[6] = 0 /\ mem.out_gen[7] = call.out_len
        /\ <<mem.out_gen[8], mem.out_gen[9]>> = ShiftRightOne(call.gen[8], call.gen[9])

\* C20: with the cursor not exhausted, both children of threefry_split keep
\* the key and the counter of the input and have its cursor shifted right
\* by one; the left child has the path of the input, the right child the
\* path OR the cursor.
C20_SplitExtendChildren ==
    (call.op = "split" /\ Cursor128(call.gen) # 0) =>
        /\ \A i \in {0, 1, 2, 3, 6, 7} :
              mem.out_left[i] = call.gen[i] /\ mem.out_right[i] = call.gen[i]
        /\ <<mem.out_left[8], mem.out_left[9]>> = ShiftRightOne(call.gen[8], call.gen[9])
        /\ <<mem.out_right[8], mem.out_right[9]>> = ShiftRightOne(call.gen[8], call.gen[9])
        /\ mem.out_left[4] = call.gen[4] /\ mem.out_left[5] = call.gen[5]
        /\ mem.out_right[4] = BitOr(call.gen[4], call.gen[8])
        /\ mem.out_right[5] = BitOr(call.gen[5], call.gen[9])

(* ------------ threefry_split with the allocations of _threefry -------- *)

\* One block of _threefry with its two allocations laid out in memory: the
\* scratch tmp, one word for out_shape = 1, at address 0 and indexed up to
\* nwords - 1, and full_key from address full_key_at on.
ThreefryBlockAt(key, counter, full_key_at, u) ==
    BlockOf(BlocksInOrder(BlocksBegin(key, counter, 1, full_key_at, u),
                          full_key_at, 0, 0, 1), "out", 0)

\* _threefry(irb, gen, 0, gen, 4, out_left, 0, 1) and the stores that follow
SplitRehashAt(m, full_key_at, u) ==
    LET gen == m.gen
        new_key == ThreefryBlockAt(KeyOf(gen), <<gen[4], gen[5], gen[6], gen[7]>>,
                                   full_key_at, u)
        m1 == StoreSeq(m, "out_left", BlockStoresOf(new_key, 0))
        m2 == StoreSeq(m1, "out_left",
                << <<4, 0>>, <<5, 0>>, <<6, 0>>, <<7, 0>>,
                   <<8, SecondBit>>, <<9, 0>> >>)
        left == m2.out_left
    IN  StoreSeq(m2, "out_right",
            << <<0, left[0]>>, <<1, left[1]>>, <<2, left[2]>>, <<3, left[3]>>,
               <<4, TopBit>>, <<5, 0>>, <<6, 0>>, <<7, 0>>,
               <<8, SecondBit>>, <<9, 0>> >>)

\* gen_ir of threefry_split, the allocations of _threefry laid out
threefry_split_at(m, full_key_at, u) ==
    IF PathExhausted(m.gen) THEN SplitRehashAt(m, full_key_at, u) ELSE SplitExtend(m)

\* left, right = threefry_split(gen); one part takes left, the other right
ForkAt(full_key_at, u) ==
    /\ MayAct("both", 1)
    /\ \E after \in {threefry_split_at(SplitBuffers(a, u), full_key_at, u)} :
          /\ mem' = after
          /\ a' = after.out_left
          /\ b' = after.out_right
    /\ call' = [op |-> "split", branch |-> SplitBranch(a), gen |-> a,
                full_key_at |-> full_key_at]
    /\ forked' = TRUE
    /\ ops' = ops + 1
    /\ rerun' = NoBuffers
    /\ UNCHANGED pc

\* full_key right behind the one word of the scratch, or clear of every
\* word the scratch is indexed at
NextSplitAt ==
    \E full_key_at \in {1, nwords}, u \in Uninit : ForkAt(full_key_at, u)

\* one call of threefry_split on any well-formed state
SpecSplitAt == InitAny /\ [][NextSplitAt]_vars

\* C21: with the cursor exhausted, threefry_split gives both children the
\* key _threefry(key, plaintext (path[0], path[1], counter[0], counter[1])),
\* counter 0 and cursor (1 << 62, 0); the left child has path (0, 0), the
\* right child path (1 << 63, 0).
C21_SplitRehashChildren ==
    (call.op = "split" /\ Cursor128(call.gen) = 0) =>
        LET new_key == ThreefryBlock(KeyOf(call.gen),
                                     << call.gen[4], call.gen[5],
                                        call.gen[6], call.gen[7] >>, 0)
        IN  /\ KeyOf(mem.out_left) = new_key
            /\ KeyOf(mem.out_right) = new_key
            /\ \A i \in {6, 7, 9} : mem.out_left[i] = 0 /\ mem.out_right[i] = 0
            /\ mem.out_left[8] = SecondBit /\ mem.out_right[8] = SecondBit
            /\ mem.out_left[4] = 0 /\ mem.out_left[5] = 0
            /\ mem.out_right[4] = TopBit /\ mem.out_right[5] = 0

\* C22: threefry_generate without counter headroom, and threefry_split,
\* take the rehash branch exactly when both words of the cursor are 0; a
\* state whose cursor bit lies in word 9 takes the other branch.
C22_RehashIffBothWordsZero ==
    /\ (call.op = "generate" /\ ~(call.gen[7] < MaxWord - call.out_len)) =>
          (call.branch = "rehash" <=> (call.gen[8] = 0 /\ call.gen[9] = 0))
    /\ call.op = "split" =>
          (call.branch = "rehash" <=> (call.gen[8] = 0 /\ call.gen[9] = 0))

(* ------------------------ _shift_right, repeated ---------------------- *)

\* a cursor (a, b) is stored in a buffer of two words
BeginShift(hi, lo) ==
    /\ call.op = "none"
    /\ mem' = [cursor |-> (0 :> hi @@ 1 :> lo)]
    /\ call' = [op |-> "_shift_right", a |-> hi, b |-> lo]
    /\ UNCHANGED <<a, b, forked, ops, rerun, pc>>

\* _shift_right(irb, cursor[0], cursor[1], cursor, 0, cursor, 1), as the
\* callers apply it to words 8 and 9; ops counts the applications
ShiftRight(limit) ==
    /\ call.op = "_shift_right"
    /\ ops < limit
    /\ mem' = _shift_right(mem, mem.cursor[0], mem.cursor[1], "cursor", 0, "cursor", 1)
    /\ ops' = ops + 1
    /\ UNCHANGED <<a, b, forked, call, rerun, pc>>

\* any two words as the cursor, shifted up to once more than it has bits
NextShift ==
    \/ \E hi \in Word, lo \in Word : BeginShift(hi, lo)
    \/ ShiftRight(2 * iwidth + 1)

SpecShift == InitFrom({Seed(<<0, 0, 0, 0>>)}) /\ [][NextShift]_vars

\* C23: _shift_right moves the bit of a one-hot cursor one position down,
\* across the word boundary too, and clears the cursor whose bit is at
\* position 0: after n applications the bit of position k is at position
\* k - n, or gone if n > k; from (1 << 63, 0) the cursor is exhausted after
\* exactly 2 * 64 applications.
C23_ShiftRightOnePosition ==
    (call.op = "_shift_right" /\ OneHot(call.a * Modulus + call.b)) =>
        /\ mem.cursor[0] * Modulus + mem.cursor[1] =
              (call.a * Modulus + call.b) \div Pow2(ops)
        /\ (call.a = TopBit /\ call.b = 0) =>
              (mem.cursor = (0 :> 0 @@ 1 :> 0) <=> ops >= 2 * iwidth)

\* the cursor of a seed, exhausted by its last application
C23_SeedCursorExhausted ==
    /\ call.op = "_shift_right"
    /\ call.a = TopBit /\ call.b = 0
    /\ ops = 2 * iwidth
    /\ mem.cursor[0] = 0 /\ mem.cursor[1] = 0

(* ------------- the rounds on values, for comparison with _threefry ---- *)

\* mix(a, b, rotation) applied to two values: x = a + b and
\* y = x ^ ((b << rotation) | (b >> (iwidth - rotation)))
MixOfValues64(a0, b0, rotation) ==
    << Add64(a0, b0), Xor64(Add64(a0, b0), RotateLeft64(b0, rotation)) >>

\* the key with the parity word appended: the xor of the key words and of
\* 0x1BD11BDAA9FC1A22
ExtendedKey64(key) ==
    << key[1], key[2], key[3], key[4],
       Xor64(Xor64(Xor64(Xor64(key[1], key[2]), key[3]), key[4]), SkeinConstLimbs) >>

\* word j gets extended_key[(stage + j) mod 5], word 3 stage in addition
InjectionOfValues64(x, extended_key, stage) ==
    << Add64(x[1], extended_key[((stage + 0) % 5) + 1]),
       Add64(x[2], extended_key[((stage + 1) % 5) + 1]),
       Add64(x[3], extended_key[((stage + 2) % 5) + 1]),
       Add64(Add64(x[4], extended_key[((stage + 3) % 5) + 1]), Const64(stage)) >>

\* one round: the two pairs mixed, then the words in the order [0, 3, 2, 1]
RoundOfValues64(x, d) ==
    LET p0 == MixOfValues64(x[1], x[2], Rotation64(d, 0))
        p1 == MixOfValues64(x[3], x[4], Rotation64(d, 1))
    IN  << p0[1], p1[2], p1[1], p0[2] >>

RECURSIVE RoundsOfValues64(_, _, _)
RoundsOfValues64(x, d, count) ==
    IF Len(x) # nwords \/ count = 0 THEN x
    ELSE RoundsOfValues64(RoundOfValues64(x, d), d + 1, count - 1)

\* 5 stages of an injection and 4 rounds; nothing after the last round
RECURSIVE StagesOfValues64(_, _, _)
StagesOfValues64(x, extended_key, stage) ==
    IF Len(x) # nwords \/ stage = 5 THEN x
    ELSE StagesOfValues64(
             RoundsOfValues64(InjectionOfValues64(x, extended_key, stage), stage * 4, 4),
             extended_key, stage + 1)

\* C24: for every key and plaintext, the caller's output buffer holds after
\* _threefry the block that 5 stages of key injection (parity word = xor of
\* the key words and 0x1BD11BDAA9FC1A22, extra + stage on word 3) and 4
\* rounds each of add / rotate-left / xor on the pairs and the permutation
\* [0, 3, 2, 1] make of the plaintext, with no injection after round 20.
C24_ComputesMixAlgorithm ==
    call.op = "_threefry" =>
        << mem.out[0], mem.out[1], mem.out[2], mem.out[3] >> =
            StagesOfValues64(call.counter, ExtendedKey64(call.key), 0)

(* ------------------- two blocks of _threefry under one key ------------ *)

\* _threefry(irb, key, 0, counter, 0, out, 0, 1) on two plaintexts under one
\* key, each call with buffers of its own: mem has those of the call on
\* counter, rerun those of the call on other
Blocks64OfOneKey(key, counter, other, u) ==
    /\ call.op = "none"
    /\ mem' = _threefry64([key |-> AsBuffer(key), counter |-> AsBuffer(counter),
                           out |-> Buf(nwords, u)],
                          "key", 0, "counter", 0, "out", 0, 1, Junk(u))
    /\ rerun' = _threefry64([key |-> AsBuffer(key), counter |-> AsBuffer(other),
                             out |-> Buf(nwords, u)],
                            "key", 0, "counter", 0, "out", 0, 1, Junk(u))
    /\ call' = [op |-> "_threefry twice", key |-> key, counter |-> counter,
                other |-> other]
    /\ UNCHANGED <<a, b, forked, ops, pc>>

\* the second plaintext has any words 0 and 1, and words 2 and 3 of the first
NextBlocks64OfOneKey ==
    \E key \in Keys64, counter \in Plaintexts64, w0 \in Words64, w1 \in Words64 :
        Blocks64OfOneKey(key, counter, <<w0, w1, counter[3], counter[4]>>, Const64(0))

SpecBlocks64OfOneKey == InitFrom({Seed(<<0, 0, 0, 0>>)}) /\ [][NextBlocks64OfOneKey]_vars

\* C25: under one key, _threefry gives different output blocks for
\* different plaintext blocks.
C25_InjectiveInPlaintext ==
    (call.op = "_threefry twice" /\ call.counter # call.other) =>
        << mem.out[0], mem.out[1], mem.out[2], mem.out[3] >> #
            << rerun.out[0], rerun.out[1], rerun.out[2], rerun.out[3] >>

(* ------------------------- extents and indices ------------------------ *)

\* an access of a buffer: the buffer, the extent it was allocated with, and
\* the index of the load or store
Access(buf, extent, idx) == [buf |-> buf, extent |-> extent, idx |-> idx]

\* extent of a buffer of a call, indexed from 0
ExtentOf(m, buf) == Cardinality(DOMAIN m[buf])

\* the loads and stores of one call of _threefry: key_buf[key_offset + i],
\* counter_buf[counter_offset + j], out_buf[out_offset + l * nwords + j] and
\* tmp[tmp_offset + l * nwords + j] with tmp_offset = 0, tmp being allocated
\* with out_shape elements
ThreefryAccesses(m, key_buf, key_offset, counter_buf, counter_offset, out_buf, out_offset, out_shape) ==
    {Access(key_buf, ExtentOf(m, key_buf), key_offset + i) : i \in 0 .. (nwords - 1)}
    \cup {Access(counter_buf, ExtentOf(m, counter_buf), counter_offset + j) :
            j \in {j \in 0 .. (nwords - 1) : out_shape > 0}}
    \cup {Access(out_buf, ExtentOf(m, out_buf), out_offset + l * nwords + j) :
            l \in 0 .. (out_shape - 1), j \in 0 .. (nwords - 1)}
    \cup {Access("_threefry.tmp", out_shape, l * nwords + j) :
            l \in 0 .. (out_shape - 1), j \in 0 .. (nwords - 1)}

\* the calls of _threefry that threefry_generate makes in a branch
GenerateAccesses(m, branch, out_len) ==
    (IF branch = "rehash"
     THEN ThreefryAccesses(m, "gen", 0, "tmp_counter", 0, "tmp", 0, 1)
     ELSE {})
    \cup ThreefryAccesses(m, "tmp", 0, "tmp", 4, "out_array", 0, out_len \div 4)

\* the call of _threefry that threefry_split makes in a branch
SplitAccesses(m, branch) ==
    IF branch = "rehash"
    THEN ThreefryAccesses(m, "gen", 0, "gen", 4, "out_left", 0, 1)
    ELSE {}

\* C26: every load and store of _threefry in a call of threefry_generate or
\* threefry_split has its index inside the extent of its buffer: the scratch
\* tmp is indexed below out_shape only, and the two words of tmp_counter are
\* read at 0 and 1 only.
C26_AccessesWithinExtent ==
    /\ call.op = "generate" =>
          \A acc \in GenerateAccesses(mem, call.branch, call.out_len) :
              0 <= acc.idx /\ acc.idx < acc.extent
    /\ call.op = "split" =>
          \A acc \in SplitAccesses(mem, call.branch) :
              0 <= acc.idx /\ acc.idx < acc.extent

====
